---- MODULE Spec2Model ----
(***************************************************************************)
(* Model of the LSP client of crush-rs (src/src/lsp.rs): one LspClient      *)
(* talking JSON-RPC to a child process over its stdin/stdout.               *)
(*                                                                         *)
(* The client is used through `&mut self`, so at most one send_request is   *)
(* in flight.  The child process is the environment: it may write any       *)
(* frame at any time and may exit at any time.                              *)
(***************************************************************************)
EXTENDS Integers, Sequences, FiniteSets, TLC

\* ---------------------------------------------------------------- bounds
MaxId == 3          \* send_request calls per connection (initialize included)
MaxSend == 3        \* frames the server writes during one connection
MaxPipe == 1        \* frames buffered in the child's stdout pipe

\* ------------------------------------------------------- JSON values
\* serde_json::Value, abstracted to a type tag and a payload number.
JNull == [t |-> "null", n |-> 0]
JNum(i) == [t |-> "num", n |-> i]
JStr(i) == [t |-> "str", n |-> i]
JObj(i) == [t |-> "obj", n |-> i]
JArr(i) == [t |-> "arr", n |-> i]
\* a field that is not present in a JSON object
Absent == [t |-> "absent", n |-> 0]

\* Option<Value>
None == [tag |-> "None", v |-> JNull]
Some(x) == [tag |-> "Some", v |-> x]

\* method names, as payload numbers of JStr
M_initialize == 1
M_initialized == 2
M_documentSymbol == 3
M_serverNotify == 4
\* the string "2.0"
V2_0 == 0

\* ------------------------------------------------------- jsonrpc::Message
\* A JSON object restricted to the six field names the message types use.
JsonObject(jsonrpc, method, params, result, error, id) ==
  [jsonrpc |-> jsonrpc, method |-> method, params |-> params,
   result |-> result, error |-> error, id |-> id]

Request(jsonrpc, method, params, id) ==
  [kind |-> "Request", jsonrpc |-> jsonrpc, method |-> method, params |-> params,
   result |-> None, error |-> None, id |-> id]

Response(jsonrpc, result, error, id) ==
  [kind |-> "Response", jsonrpc |-> jsonrpc, method |-> 0, params |-> None,
   result |-> result, error |-> error, id |-> id]

Notification(jsonrpc, method, params) ==
  [kind |-> "Notification", jsonrpc |-> jsonrpc, method |-> method, params |-> params,
   result |-> None, error |-> None, id |-> None]

\* Serialize for Option<T>: None is written as null, Some(v) as v.
SerOption(o) == IF o.tag = "None" THEN JNull ELSE o.v

\* Deserialize for Option<Value>: a missing field and null both give None.
DeOption(f) == IF f.t \in {"absent", "null"} THEN None ELSE Some(f)

\* Option<String> accepts a missing field, null or a string.
IsOptString(f) == f.t \in {"absent", "null", "str"}

\* serde_json::to_string of a message (derive(Serialize), untagged enum):
\* every field of the variant's struct is written, a None as null.
Encode(m) ==
  CASE m.kind = "Request" ->
         JsonObject(SerOption(m.jsonrpc), JStr(m.method), SerOption(m.params),
                    Absent, Absent, SerOption(m.id))
    [] m.kind = "Response" ->
         JsonObject(SerOption(m.jsonrpc), Absent, Absent,
                    SerOption(m.result), SerOption(m.error), SerOption(m.id))
    [] OTHER ->
         JsonObject(SerOption(m.jsonrpc), JStr(m.method), SerOption(m.params),
                    Absent, Absent, Absent)

NoMessage == Response(None, None, None, None)

\* The fields a variant's struct requires (derive(Deserialize)): an Option
\* field may be missing, a String field may not; unknown fields are ignored.
MatchesRequest(o) == IsOptString(o.jsonrpc) /\ o.method.t = "str"
MatchesResponse(o) == IsOptString(o.jsonrpc)
MatchesNotification(o) == IsOptString(o.jsonrpc) /\ o.method.t = "str"

\* serde_json::from_str::<Message> on a JSON object: the untagged enum tries
\* Request, then Response, then Notification, in declaration order, and
\* takes the first variant that deserializes.
Decode(o) ==
  IF MatchesRequest(o)
  THEN [ok |-> TRUE,
        m |-> Request(DeOption(o.jsonrpc), o.method.n, DeOption(o.params), DeOption(o.id))]
  ELSE IF MatchesResponse(o)
  THEN [ok |-> TRUE,
        m |-> Response(DeOption(o.jsonrpc), DeOption(o.result), DeOption(o.error),
                       DeOption(o.id))]
  ELSE IF MatchesNotification(o)
  THEN [ok |-> TRUE,
        m |-> Notification(DeOption(o.jsonrpc), o.method.n, DeOption(o.params))]
  ELSE [ok |-> FALSE, m |-> NoMessage]

\* Message::as_response
as_response(m) == IF m.kind = "Response" THEN Some(m) ELSE [tag |-> "None", v |-> NoMessage]

\* ------------------------------------------------------------- state
VARIABLES
  pc,            \* where the owner of the client is: "start", "spawned", "waiting",
                 \* "idle", "dropped", "newfailed", "spawnfailed"
  id_counter,    \* LspClient::id_counter
  capabilities,  \* LspClient::capabilities
  child,         \* the child process: "none", "running", "exited", "killed"
  kills,         \* number of start_kill calls made by Drop
  written,       \* frames flushed to the child's stdin, in order
  inbound,       \* frames in the child's stdout pipe, not yet read
  consumed,      \* frames the client has read, in order (history)
  calls,         \* one record per send_request call, in order (history)
  codec,         \* codec check: "off", "chosen", "encoded", "decoded"
  msg,           \* codec check: the message under test
  wire,          \* codec check: its encoding
  decoded,       \* codec check: the decoding of the encoding
  fcontents,     \* framing check: the serialized messages to send, in order
  fsent,         \* framing check: how many of them send_message has written
  fout,          \* framing check: the bytes written to the child's stdin
  fin,           \* framing check: how the inbound byte stream was built
  fclosed,       \* framing check: the inbound stream ends after its bytes
  frest,         \* framing check: the inbound bytes not yet read
  fres,          \* framing check: what each receive_message returned, in order
  flater,        \* framing check: inbound bytes the child has yet to write
  yolo_mode,     \* ToolExecutor::yolo_mode
  tstage,        \* where execute_tool is: "off", "idle", "confirm"
  tname,         \* the name of the tool call waiting at the prompt
  tlog,          \* the calls of execute_tool that returned, in order
  spc,           \* where the session is: "off", "start", "newfailed", "created", "loop",
                 \* "reading", "generating", "exited", "failed", "select", "selected"
  providers,     \* Session::providers, by name: configured or not, and its models
  hseed,         \* the iteration order of the providers map (fixed for one map)
  history,       \* Session::history
  added,         \* every message add_message was called with, in order
  current_provider, \* Session::current_provider
  current_model, \* Session::current_model
  stdin_eof,     \* standard input has reached its end
  sline,         \* what the last next_line returned
  sfail          \* why Session::new, run or select_provider returned Err

clientVars == <<pc, id_counter, capabilities, child, kills, written, inbound, consumed, calls>>
codecVars == <<codec, msg, wire, decoded>>
toolVars == <<yolo_mode, tstage, tname, tlog>>
sessionVars == <<spc, providers, hseed, history, added, current_provider, current_model,
                 stdin_eof, sline, sfail>>
frameVars == <<fcontents, fsent, fout, fin, fclosed, frest, fres, flater>>
vars == <<pc, id_counter, capabilities, child, kills, written, inbound, consumed, calls,
          codec, msg, wire, decoded, fcontents, fsent, fout, fin, fclosed, frest, fres,
          flater, yolo_mode, tstage, tname, tlog, spc, providers, hseed, history, added,
          current_provider, current_model, stdin_eof, sline, sfail>>

\* ------------------------------------------------ frames in the pipes
Frame(body) == [t |-> "frame", body |-> body]
EmptyObject == JsonObject(Absent, Absent, Absent, Absent, Absent, Absent)
\* a header block whose Content-Length value is not a number
BadHeader == [t |-> "badheader", body |-> EmptyObject]
\* a well-framed body that is not JSON
BadBody == [t |-> "badbody", body |-> EmptyObject]

\* an InitializeResult-shaped object and a list of two document symbols
CapsValue == JObj(1)
SymbolsValue == JArr(2)
ErrorObject == JObj(9)

\* the shape of result each request asks for
ResultFor(i) == IF i = 1 THEN CapsValue ELSE SymbolsValue

\* The responses the server may write: to each id, the result the request
\* asks for or an error object; and to one document request, a result of
\* the wrong shape.
ServerResponses ==
  { JsonObject(JStr(V2_0), Absent, Absent, ResultFor(i), Absent, JNum(i)) : i \in 1..MaxId }
  \cup { JsonObject(JStr(V2_0), Absent, Absent, Absent, ErrorObject, JNum(i)) :
      i \in 1..MaxId }
  \cup { JsonObject(JStr(V2_0), Absent, Absent, CapsValue, Absent, JNum(2)) }

ServerFrames ==
  { Frame(o) : o \in ServerResponses }
  \cup { Frame(JsonObject(JStr(V2_0), JStr(M_serverNotify), JObj(0), Absent, Absent, Absent)),
          BadHeader, BadBody }

\* ------------------------------------------------ LspClient helpers
\* the counter read without the increment
NextId_NoIncrement(counter) == counter

\* send_request: `*counter += 1; *counter`
NextId(counter) == counter + 1

\* the first response read is taken, whatever its id
IdMatches_Any(response, expected_id) == response.id.tag = "Some"

\* a response to any request issued so far is taken
IdMatches_Stale(response, expected_id) ==
  /\ response.id.tag = "Some"
  /\ response.id.v.t = "num"
  /\ response.id.v.n <= expected_id

\* receive_response: `response.id == Some(expected_id.into())`
IdMatches(response, expected_id) == response.id = Some(JNum(expected_id))

\* receive_response: `response.result.as_ref().cloned().unwrap_or(Value::Null)`
ResultValue(response) == IF response.result.tag = "Some" THEN response.result.v ELSE JNull

\* every result type takes null, as Option<_> does
ParseResult_NullOk(method, value) ==
  IF value.t \in {"null", "obj"} /\ method = M_initialize
  THEN [ok |-> TRUE, value |-> value, err |-> "none"]
  ELSE IF value.t \in {"null", "arr"} /\ method # M_initialize
  THEN [ok |-> TRUE, value |-> value, err |-> "none"]
  ELSE [ok |-> FALSE, value |-> JNull, err |-> "parse_response"]

\* serde_json::from_value::<R::Result> followed by serde_json::to_value in the
\* caller.  Initialize: R::Result = InitializeResult, a struct, so only an
\* object parses.  DocumentSymbolRequest: R::Result =
\* Option<DocumentSymbolResponse>, so null parses (as None, written back as
\* null) and a list of symbols parses.
ParseResult(method, value) ==
  IF method = M_initialize
  THEN IF value.t = "obj"
       THEN [ok |-> TRUE, value |-> value, err |-> "none"]
       ELSE [ok |-> FALSE, value |-> JNull, err |-> "parse_response"]
  ELSE IF value.t = "null"
       THEN [ok |-> TRUE, value |-> SerOption(None), err |-> "none"]
       ELSE IF value.t = "arr"
       THEN [ok |-> TRUE, value |-> SerOption(Some(value)), err |-> "none"]
       ELSE [ok |-> FALSE, value |-> JNull, err |-> "parse_response"]

Failure(kind) == [ok |-> FALSE, value |-> JNull, err |-> kind]

\* receive_message on the next frame of the pipe.  A non-numeric length
\* fails at `parse()?`; a body that is not JSON, or that matches no variant,
\* fails at serde_json::from_str.
receive_message(item) ==
  IF item.t = "badheader" THEN [ok |-> FALSE, m |-> NoMessage, err |-> "parse_length"]
  ELSE IF item.t = "badbody" THEN [ok |-> FALSE, m |-> NoMessage, err |-> "parse_message"]
  ELSE IF Decode(item.body).ok
  THEN [ok |-> TRUE, m |-> Decode(item.body).m, err |-> "none"]
  ELSE [ok |-> FALSE, m |-> NoMessage, err |-> "parse_message"]

\* end of stream taken for an empty message, which the loop skips
receive_message_eof_Skipped == [ok |-> TRUE, m |-> NoMessage, err |-> "none"]

\* receive_message at end of stream: read_line returns 0, content_length
\* stays 0, and serde_json::from_str("") fails.
receive_message_eof == [ok |-> FALSE, m |-> NoMessage, err |-> "parse_message"]

\* send_message succeeds when the child still reads its stdin.
CanWrite == child = "running"

\* every request built with the id of the first one
RequestFrame_FirstId(method, params, id) ==
  Encode(Request(Some(JStr(V2_0)), method, Some(params), Some(JNum(1))))

\* send_request: the jsonrpc::Request it builds and hands to send_message
RequestFrame(method, params, id) ==
  Encode(Request(Some(JStr(V2_0)), method, Some(params), Some(JNum(id))))

\* a notification built as a request, with the current counter as its id
NotificationFrame_WithId(method, params) ==
  Encode(Request(Some(JStr(V2_0)), method, Some(params), Some(JNum(id_counter))))

\* notify: the Notification it builds and hands to send_message
NotificationFrame(method, params) ==
  Encode(Notification(Some(JStr(V2_0)), method, Some(params)))

\* no inbound stream under test
NoStream == [name |-> <<>>, value |-> "absent", extras |-> "none", body |-> <<>>, cut |-> 0,
             follow |-> FALSE]

\* the framing check is not running
FrameOff ==
  /\ fcontents = <<>>
  /\ fsent = 0
  /\ fout = <<>>
  /\ fin = NoStream
  /\ fclosed = FALSE
  /\ frest = <<>>
  /\ fres = <<>>
  /\ flater = <<>>

\* Option::None of current_provider and of current_model
NoProvider == ""
NoModel == [of |-> "", n |-> 0]

\* no line read yet
NoLine == [kind |-> "nothing", text |-> <<>>]

\* no Session under test
SessionOff ==
  /\ spc = "off"
  /\ providers = <<>>
  /\ hseed = 1
  /\ history = <<>>
  /\ added = <<>>
  /\ current_provider = NoProvider
  /\ current_model = NoModel
  /\ stdin_eof = FALSE
  /\ sline = NoLine
  /\ sfail = "none"

\* no ToolExecutor under test
ToolOff ==
  /\ yolo_mode = FALSE
  /\ tstage = "off"
  /\ tname = ""
  /\ tlog = <<>>

InitClient ==
  /\ pc = "start"
  /\ id_counter = 0
  /\ capabilities = None
  /\ child = "none"
  /\ kills = 0
  /\ written = <<>>
  /\ inbound = <<>>
  /\ consumed = <<>>
  /\ calls = <<>>

Init ==
  /\ InitClient
  /\ codec = "off"
  /\ msg = NoMessage
  /\ wire = EmptyObject
  /\ decoded = [ok |-> FALSE, m |-> NoMessage]
  /\ FrameOff
  /\ ToolOff
  /\ SessionOff

\* ------------------------------------------------ call records (history)
Pending(id, method) ==
  [id |-> id, method |-> method, status |-> "pending", value |-> JNull, err |-> "none",
   ignored |-> 0, by |-> EmptyObject]

\* status, value and err are what send_request returned; `by` is the body of
\* the response frame that ended the call, if one did.
Finished(call, outcome, body) ==
  [call EXCEPT !.status = IF outcome.ok THEN "ok" ELSE "err",
               !.value = outcome.value, !.err = outcome.err, !.by = body]

\* a client whose Drop does not kill the child
DropClient_NoKill == UNCHANGED <<kills, child>>

\* Drop for LspClient: start_kill, its result ignored.
DropClient ==
  /\ kills' = kills + 1
  /\ child' = IF child = "running" THEN "killed" ELSE child

\* initialize without the "initialized" notification
Continue_NoInitialized(method, outcome) ==
  IF method = M_initialize
  THEN IF outcome.ok
       THEN /\ capabilities' = Some(outcome.value)
            /\ pc' = "idle"
            /\ UNCHANGED <<written, child, kills>>
       ELSE /\ pc' = "newfailed"
            /\ DropClient
            /\ UNCHANGED <<capabilities, written>>
  ELSE /\ pc' = "idle"
       /\ UNCHANGED <<capabilities, written, child, kills>>

\* What follows the return of send_request: in initialize, capture the
\* capabilities and notify "initialized" (LspClient::new fails and drops the
\* client on any error); in get_document_symbols, return to the owner.
Continue(method, outcome) ==
  IF method = M_initialize
  THEN IF outcome.ok
       THEN /\ capabilities' = Some(outcome.value)
            /\ IF CanWrite
               THEN /\ written' = Append(written, NotificationFrame(M_initialized, JNull))
                    /\ pc' = "idle"
                    /\ UNCHANGED <<child, kills>>
               ELSE /\ pc' = "newfailed"
                    /\ DropClient
                    /\ UNCHANGED written
       ELSE /\ pc' = "newfailed"
            /\ DropClient
            /\ UNCHANGED <<capabilities, written>>
  ELSE /\ pc' = "idle"
       /\ UNCHANGED <<capabilities, written, child, kills>>

\* send_request up to its first read: allocate the id, build the request,
\* send_message.  A failed write returns the error at once.
send_request(method, params) ==
  LET id == NextId(id_counter) IN
  /\ id_counter' = id
  /\ IF CanWrite
     THEN /\ written' = Append(written, RequestFrame(method, params, id))
          /\ calls' = Append(calls, Pending(id, method))
          /\ pc' = "waiting"
          /\ UNCHANGED <<capabilities, child, kills>>
     ELSE /\ calls' = Append(calls, Finished(Pending(id, method), Failure("io"), EmptyObject))
          /\ IF method = M_initialize
             THEN /\ pc' = "newfailed"
                  /\ DropClient
             ELSE /\ pc' = "idle"
                  /\ UNCHANGED <<child, kills>>
          /\ UNCHANGED <<capabilities, written>>

\* -------------------------------------------------------------- actions
\* LspClient::new, first half: spawn the child and attach the pipes.
Spawn ==
  /\ pc = "start"
  /\ \E spawned \in BOOLEAN :
        IF spawned
        THEN pc' = "spawned" /\ child' = "running"
        ELSE pc' = "spawnfailed" /\ child' = child
  /\ UNCHANGED <<id_counter, capabilities, kills, written, inbound, consumed, calls>>
  /\ UNCHANGED <<codecVars, frameVars, toolVars, sessionVars>>

\* LspClient::new, second half: client.initialize() up to its first read.
Initialize ==
  /\ pc = "spawned"
  /\ send_request(M_initialize, JObj(0))
  /\ UNCHANGED <<inbound, consumed>>
  /\ UNCHANGED <<codecVars, frameVars, toolVars, sessionVars>>

\* get_document_symbols up to its first read.  A path that is not absolute
\* fails in Url::from_file_path before anything else happens.
GetDocumentSymbols ==
  /\ pc = "idle"
  /\ id_counter < MaxId
  /\ \E absolute \in BOOLEAN :
        IF absolute
        THEN send_request(M_documentSymbol, JObj(0))
        ELSE UNCHANGED <<pc, id_counter, capabilities, child, kills, written, calls>>
  /\ UNCHANGED <<inbound, consumed>>
  /\ UNCHANGED <<codecVars, frameVars, toolVars, sessionVars>>

\* One iteration of the loop of receive_response: receive_message, then
\* return if the message is the response with the expected id, else go on.
Receive ==
  /\ pc = "waiting"
  /\ inbound # <<>> \/ child # "running"
  /\ LET eof == inbound = <<>>
         r == IF eof THEN receive_message_eof ELSE receive_message(Head(inbound))
         n == Len(calls)
         cur == calls[n]
         resp == as_response(r.m)
     IN /\ inbound' = IF eof THEN inbound ELSE Tail(inbound)
        /\ consumed' = IF eof THEN consumed ELSE Append(consumed, Head(inbound))
        /\ IF ~r.ok
           THEN /\ calls' = [calls EXCEPT ![n] = Finished(cur, Failure(r.err), EmptyObject)]
                /\ Continue(cur.method, Failure(r.err))
           ELSE IF resp.tag = "Some" /\ IdMatches(resp.v, cur.id)
           THEN LET outcome == ParseResult(cur.method, ResultValue(resp.v)) IN
                /\ calls' = [calls EXCEPT ![n] = Finished(cur, outcome, Head(inbound).body)]
                /\ Continue(cur.method, outcome)
           ELSE /\ calls' = [calls EXCEPT ![n].ignored = @ + 1]
                /\ UNCHANGED <<pc, capabilities, written, child, kills>>
  /\ UNCHANGED id_counter
  /\ UNCHANGED <<codecVars, frameVars, toolVars, sessionVars>>

\* The owner lets the client go out of scope.
Drop ==
  /\ pc = "idle"
  /\ pc' = "dropped"
  /\ DropClient
  /\ UNCHANGED <<id_counter, capabilities, written, inbound, consumed, calls>>
  /\ UNCHANGED <<codecVars, frameVars, toolVars, sessionVars>>

\* The owner gives up the pending call and lets the client go out of scope
\* with it: the future of send_request is dropped at its await, then the
\* client (inside LspClient::new, the client is a local of the future).
DropInFlight ==
  /\ pc = "waiting"
  /\ pc' = "dropped"
  /\ calls' = [calls EXCEPT ![Len(calls)].status = "abandoned"]
  /\ DropClient
  /\ UNCHANGED <<id_counter, capabilities, written, inbound, consumed>>
  /\ UNCHANGED <<codecVars, frameVars, toolVars, sessionVars>>

\* The child writes one frame to its stdout.
ServerSend ==
  /\ child = "running"
  /\ Len(inbound) < MaxPipe
  /\ Len(inbound) + Len(consumed) < MaxSend
  /\ \E f \in ServerFrames : inbound' = Append(inbound, f)
  /\ UNCHANGED <<pc, id_counter, capabilities, child, kills, written, consumed, calls>>
  /\ UNCHANGED <<codecVars, frameVars, toolVars, sessionVars>>

\* The child exits or is killed from outside: its pipes close.
ChildExit ==
  /\ child = "running"
  /\ child' = "exited"
  /\ UNCHANGED <<pc, id_counter, capabilities, kills, written, inbound, consumed, calls>>
  /\ UNCHANGED <<codecVars, frameVars, toolVars, sessionVars>>

Next ==
  \/ Spawn
  \/ Initialize
  \/ GetDocumentSymbols
  \/ Receive
  \/ Drop
  \/ DropInFlight
  \/ ServerSend
  \/ ChildExit

Spec == Init /\ [][Next]_vars

\* The same client when the runtime resumes a reader whose read can complete.
FairSpec == Spec /\ WF_vars(Receive)

\* ------------------------------------------------ codec round trip
OptJsonrpc == {None, Some(JStr(V2_0))}
OptParams == {None, Some(JNull), Some(JObj(0))}
Ids == {Some(JNum(i)) : i \in 1..MaxId}

\* The messages of the protocol: a request has an id and a method, a
\* response an id and a result or an error, a notification a method.
ValidMessages ==
  { Request(j, m, p, i) :
      j \in OptJsonrpc, m \in {M_initialize, M_documentSymbol}, p \in OptParams, i \in Ids }
  \cup { Response(j, r, None, i) :
      j \in OptJsonrpc, r \in {Some(CapsValue), Some(SymbolsValue)}, i \in Ids }
  \cup { Response(j, None, Some(ErrorObject), i) : j \in OptJsonrpc, i \in Ids }
  \cup { Notification(j, m, p) :
      j \in OptJsonrpc, m \in {M_initialized, M_serverNotify}, p \in OptParams }

InitCodec ==
  /\ InitClient
  /\ codec = "chosen"
  /\ msg \in ValidMessages
  /\ wire = EmptyObject
  /\ decoded = [ok |-> FALSE, m |-> NoMessage]
  /\ FrameOff
  /\ ToolOff
  /\ SessionOff

\* send_message: serde_json::to_string(message)
EncodeStep ==
  /\ codec = "chosen"
  /\ wire' = Encode(msg)
  /\ codec' = "encoded"
  /\ UNCHANGED <<msg, decoded>>
  /\ UNCHANGED <<clientVars, frameVars, toolVars, sessionVars>>

\* receive_message: serde_json::from_str(&content)
DecodeStep ==
  /\ codec = "encoded"
  /\ decoded' = Decode(wire)
  /\ codec' = "decoded"
  /\ UNCHANGED <<msg, wire>>
  /\ UNCHANGED <<clientVars, frameVars, toolVars, sessionVars>>

NextCodec == EncodeStep \/ DecodeStep

SpecCodec == InitCodec /\ [][NextCodec]_vars

\* ------------------------------------------------ decoding any JSON object
\* The JSON objects a server can put in a frame, over the six field names.
WireObjects ==
  { JsonObject(j, m, p, r, e, i) :
      j \in {Absent, JStr(V2_0), JNum(2)},
      m \in {Absent, JStr(M_serverNotify)},
      p \in {Absent, JObj(0)},
      r \in {Absent, CapsValue},
      e \in {Absent, ErrorObject},
      i \in {Absent, JNum(1)} }

InitDecode ==
  /\ InitClient
  /\ codec = "encoded"
  /\ msg = NoMessage
  /\ wire \in WireObjects
  /\ decoded = [ok |-> FALSE, m |-> NoMessage]
  /\ FrameOff
  /\ ToolOff
  /\ SessionOff

NextDecode == DecodeStep

SpecDecode == InitDecode /\ [][NextDecode]_vars

\* ------------------------------------------------ strings and bytes
\* A string is a sequence of characters, a character a one-letter string;
\* "U+E9" is one character outside ASCII.  A byte is the character itself
\* for ASCII, and "xC3", "xA9" are the two bytes of U+E9 in UTF-8.
Utf8(c) == IF c = "U+E9" THEN <<"xC3", "xA9">> ELSE <<c>>

RECURSIVE as_bytes(_)
\* str::as_bytes
as_bytes(str) == IF str = <<>> THEN <<>> ELSE Utf8(Head(str)) \o as_bytes(Tail(str))

DigitChars == <<"0", "1", "2", "3", "4", "5", "6", "7", "8", "9">>

RECURSIVE FormatUsize(_)
\* Display for usize, as `{content_length}` in format!
FormatUsize(n) ==
  IF n < 10 THEN <<DigitChars[n + 1]>>
  ELSE FormatUsize(n \div 10) \o <<DigitChars[(n % 10) + 1]>>

ContentLengthPrefix == <<"C", "o", "n", "t", "e", "n", "t", "-", "L", "e", "n", "g", "t", "h", ":", " ">>
CrLfCrLf == <<"\r", "\n", "\r", "\n">>

\* the length in characters, where the code takes the length in bytes
content_length_Chars(content) == Len(content)

\* send_message: `content.len()`, the length of the String in bytes
content_length(content) == Len(as_bytes(content))

\* a header block closed by a single line end
frame_bytes_OneCrLf(content) ==
  as_bytes(ContentLengthPrefix \o FormatUsize(content_length(content)) \o <<"\r", "\n">>)
    \o as_bytes(content)

\* send_message: the bytes of the two write_all calls, flushed together
frame_bytes(content) ==
  as_bytes(ContentLengthPrefix \o FormatUsize(content_length(content)) \o CrLfCrLf)
    \o as_bytes(content)

\* ------------------------------------------------ sending frames, in bytes
MaxFrames == 2      \* send_message calls in one run of the framing check

\* Texts that serde_json::to_string can produce or serde_json::from_str can
\* read as a JSON object: {}  {"id":1}  {"<U+E9>":1}  {}<LF>  {<LF>}
\* {"result":[]}
JsonTexts ==
  { <<"{", "}">>,
    <<"{", "\"", "i", "d", "\"", ":", "1", "}">>,
    <<"{", "\"", "U+E9", "\"", ":", "1", "}">>,
    <<"{", "}", "\n">>,
    <<"{", "\n", "}">>,
    <<"{", "\"", "r", "e", "s", "u", "l", "t", "\"", ":", "[", "]", "}">> }

SeqsUpTo(S, n) == UNION { [1..k -> S] : k \in 1..n }

InitSend ==
  /\ InitClient
  /\ ToolOff
  /\ SessionOff
  /\ codec = "off"
  /\ msg = NoMessage
  /\ wire = EmptyObject
  /\ decoded = [ok |-> FALSE, m |-> NoMessage]
  /\ fcontents \in SeqsUpTo(JsonTexts, MaxFrames)
  /\ fsent = 0
  /\ fout = <<>>
  /\ fin = NoStream
  /\ fclosed = FALSE
  /\ frest = <<>>
  /\ fres = <<>>
  /\ flater = <<>>

\* send_message, called through `&mut self`: one caller at a time, and the
\* whole frame is written before the call returns.
SendMessage ==
  /\ fsent < Len(fcontents)
  /\ fout' = fout \o frame_bytes(fcontents[fsent + 1])
  /\ fsent' = fsent + 1
  /\ UNCHANGED <<fcontents, fin, fclosed, frest, fres, flater>>
  /\ UNCHANGED <<clientVars, codecVars, toolVars, sessionVars>>

NextSend == SendMessage

SpecSend == InitSend /\ [][NextSend]_vars

\* ------------------------------------------------ receiving frames, in bytes
MaxReads == 2       \* receive_message calls in one run of the framing check

\* the index of the first LF of a byte string, 0 if there is none
FirstLf(b) ==
  IF \E i \in 1..Len(b) : b[i] = "\n"
  THEN CHOOSE i \in 1..Len(b) : b[i] = "\n" /\ \A j \in 1..(i - 1) : b[j] # "\n"
  ELSE 0

\* str::ends_with and str::starts_with
ends_with(str, suffix) ==
  Len(str) >= Len(suffix) /\ SubSeq(str, Len(str) - Len(suffix) + 1, Len(str)) = suffix
starts_with(str, prefix) ==
  Len(str) >= Len(prefix) /\ SubSeq(str, 1, Len(prefix)) = prefix

\* whether bytes are well-formed UTF-8 (read_line and String::from_utf8
\* fail otherwise)
Utf8Valid(b) ==
  \A i \in 1..Len(b) :
    /\ b[i] = "xC3" => (i < Len(b) /\ b[i + 1] = "xA9")
    /\ b[i] = "xA9" => (i > 1 /\ b[i - 1] = "xC3")

RECURSIVE from_utf8(_)
\* String::from_utf8 on well-formed bytes
from_utf8(b) ==
  IF b = <<>> THEN <<>>
  ELSE IF b[1] = "xC3" THEN <<"U+E9">> \o from_utf8(SubSeq(b, 3, Len(b)))
  ELSE <<b[1]>> \o from_utf8(Tail(b))

UpperChars == <<"A", "B", "C", "D", "E", "F", "G", "H", "I", "J", "K", "L", "M", "N", "O", "P", "Q", "R", "S", "T", "U", "V", "W", "X", "Y", "Z">>
LowerChars == <<"a", "b", "c", "d", "e", "f", "g", "h", "i", "j", "k", "l", "m", "n", "o", "p", "q", "r", "s", "t", "u", "v", "w", "x", "y", "z">>

\* a comparison that keeps the letter case
Lower_Identity(c) == c

\* char::to_lowercase
Lower(c) ==
  IF \E k \in 1..26 : UpperChars[k] = c
  THEN LowerChars[CHOOSE k \in 1..26 : UpperChars[k] = c]
  ELSE c

\* str::to_lowercase
to_lowercase(str) == [i \in 1..Len(str) |-> Lower(str[i])]

RECURSIVE lines(_)
\* str::lines: split at LF, a CR before the LF is dropped
lines(str) ==
  IF str = <<>> THEN <<>>
  ELSE LET i == FirstLf(str) IN
       IF i = 0 THEN <<str>>
       ELSE LET l == SubSeq(str, 1, i - 1)
                t == IF l # <<>> /\ l[Len(l)] = "\r" THEN SubSeq(l, 1, Len(l) - 1) ELSE l
            IN <<t>> \o lines(SubSeq(str, i + 1, Len(str)))

FirstColon(str) ==
  IF \E i \in 1..Len(str) : str[i] = ":"
  THEN CHOOSE i \in 1..Len(str) : str[i] = ":" /\ \A j \in 1..(i - 1) : str[j] # ":"
  ELSE 0

\* `line.split(':').collect()` then `parts[1]`: the text between the first
\* colon and the second one (or the end of the line)
SecondPart(line) ==
  LET after == SubSeq(line, FirstColon(line) + 1, Len(line))
      j == FirstColon(after)
  IN IF j = 0 THEN after ELSE SubSeq(after, 1, j - 1)

Whitespace == {" ", "\t", "\r", "\n"}

RECURSIVE trim_start(_)
trim_start(str) ==
  IF str # <<>> /\ Head(str) \in Whitespace THEN trim_start(Tail(str)) ELSE str

RECURSIVE trim_end(_)
trim_end(str) ==
  IF str # <<>> /\ str[Len(str)] \in Whitespace
  THEN trim_end(SubSeq(str, 1, Len(str) - 1)) ELSE str

\* str::trim
trim(str) == trim_end(trim_start(str))

IsDigit(c) == \E k \in 1..10 : DigitChars[k] = c

RECURSIVE DigitsValue(_)
DigitsValue(d) ==
  IF d = <<>> THEN 0
  ELSE 10 * DigitsValue(SubSeq(d, 1, Len(d) - 1))
         + ((CHOOSE k \in 1..10 : DigitChars[k] = d[Len(d)]) - 1)

\* str::parse::<usize>: an optional '+', then one or more digits
parse_usize(str) ==
  LET d == IF str # <<>> /\ Head(str) = "+" THEN Tail(str) ELSE str IN
  IF d # <<>> /\ \A i \in 1..Len(d) : IsDigit(d[i])
  THEN [ok |-> TRUE, n |-> DigitsValue(d)]
  ELSE [ok |-> FALSE, n |-> 0]

LengthName == <<"c", "o", "n", "t", "e", "n", "t", "-", "l", "e", "n", "g", "t", "h", ":">>

RECURSIVE parse_content_length(_, _)
\* receive_message, "Parse content length": every line whose lower-cased
\* text starts with "content-length:" sets content_length, the last one
\* wins, and the first value that does not parse ends the call.
parse_content_length(ls, content_length0) ==
  IF ls = <<>> THEN [ok |-> TRUE, n |-> content_length0]
  ELSE IF starts_with(to_lowercase(Head(ls)), LengthName)
  THEN LET p == parse_usize(trim(SecondPart(Head(ls)))) IN
       IF p.ok THEN parse_content_length(Tail(ls), p.n) ELSE [ok |-> FALSE, n |-> 0]
  ELSE parse_content_length(Tail(ls), content_length0)

RECURSIVE read_headers(_, _, _)
\* receive_message, "Read headers": read_line until it returns 0 or the
\* text read so far ends with CR LF CR LF.  Blocks while the stream is open
\* and holds no complete line.
read_headers(b, closed, headers) ==
  LET i == FirstLf(b) IN
  IF i = 0
  THEN IF ~closed THEN [st |-> "blocked", headers |-> headers, rest |-> b]
       ELSE IF ~Utf8Valid(b) THEN [st |-> "err", headers |-> headers, rest |-> <<>>]
       ELSE [st |-> "ok", headers |-> headers \o b, rest |-> <<>>]
  ELSE LET line == SubSeq(b, 1, i)
           rest == SubSeq(b, i + 1, Len(b))
       IN IF ~Utf8Valid(line) THEN [st |-> "err", headers |-> headers, rest |-> rest]
          ELSE IF ends_with(headers \o line, CrLfCrLf)
          THEN [st |-> "ok", headers |-> headers \o line, rest |-> rest]
          ELSE read_headers(rest, closed, headers \o line)

\* a read of the body as a line: up to the first LF, or all there is
read_exact_Line(b, n, closed) ==
  IF FirstLf(b) > 0
  THEN [st |-> "ok", raw |-> SubSeq(b, 1, FirstLf(b)), rest |-> SubSeq(b, FirstLf(b) + 1, Len(b))]
  ELSE IF closed \/ Len(b) >= n THEN [st |-> "ok", raw |-> b, rest |-> <<>>]
  ELSE [st |-> "blocked", raw |-> <<>>, rest |-> b]

\* a read that returns the bytes there are when the stream ends early
read_exact_Available(b, n, closed) ==
  IF Len(b) >= n
  THEN [st |-> "ok", raw |-> SubSeq(b, 1, n), rest |-> SubSeq(b, n + 1, Len(b))]
  ELSE IF closed THEN [st |-> "ok", raw |-> b, rest |-> <<>>]
  ELSE [st |-> "blocked", raw |-> <<>>, rest |-> b]

\* AsyncReadExt::read_exact: exactly n bytes, an error (UnexpectedEof) when
\* the stream ends before, and it waits while the stream is open.
read_exact(b, n, closed) ==
  IF Len(b) >= n
  THEN [st |-> "ok", raw |-> SubSeq(b, 1, n), rest |-> SubSeq(b, n + 1, Len(b))]
  ELSE IF closed THEN [st |-> "err", raw |-> <<>>, rest |-> <<>>]
  ELSE [st |-> "blocked", raw |-> <<>>, rest |-> b]

\* serde_json::from_str::<Message> succeeds on the texts of JSON objects;
\* of the texts that occur here these are the ones of JsonTexts.
from_str_ok(content) == content \in JsonTexts

FrameResult(st, err, content, rest) ==
  [st |-> st, err |-> err, content |-> content, rest |-> rest]

\* receive_message on the bytes of the inbound stream
receive_message_bytes(b, closed) ==
  LET h == read_headers(b, closed, <<>>) IN
  IF h.st = "blocked" THEN FrameResult("blocked", "none", <<>>, b)
  ELSE IF h.st = "err" THEN FrameResult("err", "io", <<>>, h.rest)
  ELSE LET cl == parse_content_length(lines(from_utf8(h.headers)), 0) IN
       IF ~cl.ok THEN FrameResult("err", "parse_length", <<>>, h.rest)
       ELSE LET r == read_exact(h.rest, cl.n, closed) IN
            IF r.st = "blocked" THEN FrameResult("blocked", "none", <<>>, b)
            ELSE IF r.st = "err" THEN FrameResult("err", "io", <<>>, r.rest)
            ELSE IF ~Utf8Valid(r.raw) THEN FrameResult("err", "utf8", <<>>, r.rest)
            ELSE IF from_str_ok(from_utf8(r.raw))
            THEN FrameResult("ok", "none", from_utf8(r.raw), r.rest)
            ELSE FrameResult("err", "parse_message", <<>>, r.rest)

\* ---- the inbound streams under test
LengthNames ==
  { <<"C", "o", "n", "t", "e", "n", "t", "-", "L", "e", "n", "g", "t", "h">>,
    <<"c", "o", "n", "t", "e", "n", "t", "-", "l", "e", "n", "g", "t", "h">>,
    <<"C", "O", "N", "T", "E", "N", "T", "-", "L", "E", "N", "G", "T", "H">> }

\* another header line: Content-Type: a
ExtraHeader == <<"C", "o", "n", "t", "e", "n", "t", "-", "T", "y", "p", "e", ":", " ", "a", "\r", "\n">>

\* the frame that may follow the one under test
FollowText == <<"{", "\"", "i", "d", "\"", ":", "1", "}">>

\* The value of the length field: the exact byte length of the body, a
\* word, the exact length followed by ":x", the exact length after a '+'.
ValueText(f) ==
  CASE f.value = "exact" -> FormatUsize(content_length(f.body))
    [] f.value = "alpha" -> <<"a", "b", "c">>
    [] f.value = "suffix" -> FormatUsize(content_length(f.body)) \o <<":", "x">>
    [] f.value = "plus" -> <<"+">> \o FormatUsize(content_length(f.body))
    [] OTHER -> <<>>

\* The bytes of the stream: the header lines, the blank line, the body
\* without its last `cut` bytes, and possibly one more frame.
StreamOf(f) ==
  (IF f.extras = "before" THEN ExtraHeader ELSE <<>>)
  \o (IF f.value = "absent" THEN <<>>
      ELSE f.name \o <<":", " ">> \o ValueText(f) \o <<"\r", "\n">>)
  \o (IF f.extras = "after" THEN ExtraHeader ELSE <<>>)
  \o <<"\r", "\n">>
  \o SubSeq(as_bytes(f.body), 1, Len(as_bytes(f.body)) - f.cut)
  \o (IF f.follow THEN frame_bytes(FollowText) ELSE <<>>)

Streams ==
  { f \in [name : LengthNames,
           value : {"exact", "alpha", "suffix", "plus", "absent"},
           extras : {"none", "before", "after"},
           body : JsonTexts,
           cut : {0, 1, 3},
           follow : BOOLEAN] :
      f.cut > 0 => (~f.follow /\ f.cut < Len(as_bytes(f.body))) }

InitRecv ==
  /\ InitClient
  /\ ToolOff
  /\ SessionOff
  /\ codec = "off"
  /\ msg = NoMessage
  /\ wire = EmptyObject
  /\ decoded = [ok |-> FALSE, m |-> NoMessage]
  /\ fcontents = <<>>
  /\ fsent = 0
  /\ fout = <<>>
  /\ fin \in Streams
  /\ fclosed \in BOOLEAN
  /\ frest = StreamOf(fin)
  /\ fres = <<>>
  /\ flater = <<>>

\* one call of receive_message; after an error or while it is blocked no
\* further call is made here, after a call that returned or was given up
\* the next one is
RecvMessage ==
  /\ fin # NoStream
  /\ Len(fres) < MaxReads
  /\ IF fres = <<>> THEN TRUE ELSE fres[Len(fres)].st \in {"ok", "abandoned"}
  /\ LET r == receive_message_bytes(frest, fclosed) IN
       /\ fres' = Append(fres, r)
       /\ frest' = r.rest
  /\ UNCHANGED <<fcontents, fsent, fout, fin, fclosed, flater>>
  /\ UNCHANGED <<clientVars, codecVars, toolVars, sessionVars>>

NextRecv == RecvMessage

SpecRecv == InitRecv /\ [][NextRecv]_vars

\* ------------------------------------------------ a call given up while it reads
\* Two frames back to back, the response to the request that is given up
\* and the response to the next request; the child has written the first
\* `k` bytes when the first receive_message starts.
TwoFrames == { f \in Streams : f.value = "exact" /\ f.cut = 0 /\ f.follow }

InitAbandon ==
  /\ InitClient
  /\ ToolOff
  /\ SessionOff
  /\ codec = "off"
  /\ msg = NoMessage
  /\ wire = EmptyObject
  /\ decoded = [ok |-> FALSE, m |-> NoMessage]
  /\ fcontents = <<>>
  /\ fsent = 0
  /\ fout = <<>>
  /\ fin \in TwoFrames
  /\ fclosed = FALSE
  /\ \E k \in 0..Len(StreamOf(fin)) :
        /\ frest = SubSeq(StreamOf(fin), 1, k)
        /\ flater = SubSeq(StreamOf(fin), k + 1, Len(StreamOf(fin)))
  /\ fres = <<>>

\* The caller drops the future of send_request while receive_message is
\* suspended in read_line or read_exact.  The bytes those reads have taken
\* from the BufReader so far were moved into `headers`, into the line being
\* read or into `content`, which are dropped with the future.
RecvAbandoned ==
  /\ fin # NoStream
  /\ fres = <<>>
  /\ receive_message_bytes(frest, fclosed).st = "blocked"
  /\ fres' = <<FrameResult("abandoned", "none", <<>>, <<>>)>>
  /\ frest' = <<>>
  /\ UNCHANGED <<fcontents, fsent, fout, fin, fclosed, flater>>
  /\ UNCHANGED <<clientVars, codecVars, toolVars, sessionVars>>

\* The child writes the rest of its output.
Arrive ==
  /\ flater # <<>>
  /\ frest' = frest \o flater
  /\ flater' = <<>>
  /\ UNCHANGED <<fcontents, fsent, fout, fin, fclosed, fres>>
  /\ UNCHANGED <<clientVars, codecVars, toolVars, sessionVars>>

NextAbandon ==
  \/ RecvAbandoned
  \/ Arrive
  \/ RecvMessage

SpecAbandon == InitAbandon /\ [][NextAbandon]_vars

\* ------------------------------------------------ ToolExecutor
MaxCalls == 2

\* ToolExecutor::new: the allow-list
safe_tools ==
  {"list_files", "read_file", "get_current_directory", "git_status", "git_log", "which", "echo"}

\* the names execute_tool is called with: every name of its match, and one
\* it does not know
ToolNames ==
  {"shell", "bash", "cmd", "list_files", "ls", "read_file", "cat", "write_file",
   "get_current_directory", "pwd", "git_status", "git_log", "which", "echo", "rm"}

\* the match of execute_tool: the handler a name is dispatched to
Dispatch(tool_name) ==
  CASE tool_name \in {"shell", "bash", "cmd"} -> "execute_shell_command"
    [] tool_name \in {"list_files", "ls"} -> "list_files"
    [] tool_name \in {"read_file", "cat"} -> "read_file"
    [] tool_name = "write_file" -> "write_file"
    [] tool_name \in {"get_current_directory", "pwd"} -> "get_current_directory"
    [] tool_name = "git_status" -> "git_status"
    [] tool_name = "git_log" -> "git_log"
    [] tool_name = "which" -> "which_command"
    [] tool_name = "echo" -> "echo"
    [] OTHER -> "none"

\* every tool that execute_tool can dispatch counts as safe
is_safe_tool_Dispatched(tool_name) == Dispatch(tool_name) # "none"

\* ToolExecutor::is_safe_tool
is_safe_tool(tool_name) == tool_name \in safe_tools

\* Result<ToolResult>: Ok(ToolResult { success, output, .. }) or Err
ToolOk(success, output) == [kind |-> "ok", success |-> success, output |-> output]
ToolErr(why) == [kind |-> "err", success |-> FALSE, output |-> why]

\* the ToolResult returned when the user declines
Denied == ToolOk(FALSE, "Tool execution denied by user")

\* What a handler can return: a result from the command or file operation it
\* ran, or an error (a missing argument, a command that cannot be started).
HandlerOutcomes(handler) ==
  CASE handler = "none" -> {ToolErr("Unknown tool")}
    [] handler = "echo" -> {ToolOk(TRUE, "tool output")}
    [] handler = "get_current_directory" -> {ToolOk(TRUE, "tool output"), ToolOk(FALSE, "")}
    [] OTHER -> {ToolOk(TRUE, "tool output"), ToolOk(FALSE, "tool output"), ToolErr("handler")}

\* the record of a call that returned
ToolReturn(name, prompted, answer, ran, result) ==
  [name |-> name, prompted |-> prompted, answer |-> answer, ran |-> ran, result |-> result]

\* execute_tool from its match on: dispatch and return what the handler returns
RunTool(name, prompted, answer) ==
  \E outcome \in HandlerOutcomes(Dispatch(name)) :
    tlog' = Append(tlog, ToolReturn(name, prompted, answer, Dispatch(name), outcome))

InitTool ==
  /\ InitClient
  /\ codec = "off"
  /\ msg = NoMessage
  /\ wire = EmptyObject
  /\ decoded = [ok |-> FALSE, m |-> NoMessage]
  /\ FrameOff
  /\ yolo_mode \in BOOLEAN
  /\ tstage = "idle"
  /\ tname = ""
  /\ tlog = <<>>
  /\ SessionOff

\* execute_tool up to the prompt, or to its return when there is no prompt
ExecuteTool ==
  /\ tstage = "idle"
  /\ Len(tlog) < MaxCalls
  /\ \E name \in ToolNames :
        IF ~yolo_mode /\ ~is_safe_tool(name)
        THEN /\ tstage' = "confirm"
             /\ tname' = name
             /\ UNCHANGED tlog
        ELSE /\ RunTool(name, FALSE, "none")
             /\ UNCHANGED <<tstage, tname>>
  /\ UNCHANGED yolo_mode
  /\ UNCHANGED <<clientVars, codecVars, frameVars, sessionVars>>

\* Confirm::interact returns: the user accepts, declines, or the prompt
\* fails (no terminal)
ConfirmPrompt ==
  /\ tstage = "confirm"
  /\ \E answer \in {"yes", "no", "error"} :
        CASE answer = "yes" -> RunTool(tname, TRUE, "yes")
          [] answer = "no" ->
              tlog' = Append(tlog, ToolReturn(tname, TRUE, "no", "none", Denied))
          [] OTHER ->
              tlog' = Append(tlog, ToolReturn(tname, TRUE, "error", "none", ToolErr("prompt")))
  /\ tstage' = "idle"
  /\ tname' = ""
  /\ UNCHANGED yolo_mode
  /\ UNCHANGED <<clientVars, codecVars, frameVars, sessionVars>>

NextTool == ExecuteTool \/ ConfirmPrompt

SpecTool == InitTool /\ [][NextTool]_vars

\* ------------------------------------------------ Session: providers
\* the names tried in alphabetical order
PreferredOrder_Alphabetical ==
  <<"anthropic", "deepseek", "gemini", "kimi", "ollama", "openai">>

\* select_provider: the names it tries first, in this order
PreferredOrder == <<"kimi", "deepseek", "gemini", "anthropic", "openai", "ollama">>

\* provider names a configuration may use besides those
OtherNames == <<"groq", "mistral">>

NameSeq == PreferredOrder \o OtherNames
Names == { NameSeq[i] : i \in 1..Len(NameSeq) }

\* an entry of the providers map, or its absence
NotConfigured == [configured |-> FALSE, models |-> <<>>]
Configured(models) == [configured |-> TRUE, models |-> models]

\* the models a configuration lists for a provider, when it lists any
ModelsOf(name) == << [of |-> name, n |-> 1], [of |-> name, n |-> 2] >>

\* `self.providers.get(name)` is Some and `provider.models().first()` is Some
HasModel(provs, name) == provs[name].configured /\ provs[name].models # <<>>

\* the last model of the list
FirstModel_Last(provs, name) == provs[name].models[Len(provs[name].models)]

\* `provider.models().first()`
FirstModel(provs, name) == Head(provs[name].models)

RECURSIVE FirstIn(_, _)
\* the loop `for name in order`: the first name with a model, if any
FirstIn(provs, order) ==
  IF order = <<>> THEN NoProvider
  ELSE IF HasModel(provs, Head(order)) THEN Head(order)
  ELSE FirstIn(provs, Tail(order))

\* `for (provider_name, provider) in &self.providers`: the order of a HashMap
\* is unspecified and fixed for one map; here the names in a cyclic order
\* that begins at the seed-th name.
Iteration(seed) ==
  [i \in 1..Len(NameSeq) |-> NameSeq[((i + seed - 2) % Len(NameSeq)) + 1]]

\* Session::select_provider: what it returns and what it would store
select_provider(provs, seed) ==
  LET listed == FirstIn(provs, PreferredOrder)
      chosen == IF listed # NoProvider THEN listed ELSE FirstIn(provs, Iteration(seed))
  IN IF chosen # NoProvider
     THEN [ok |-> TRUE, provider |-> chosen, model |-> FirstModel(provs, chosen)]
     ELSE [ok |-> FALSE, provider |-> NoProvider, model |-> NoModel]

\* the assignments of select_provider
SetCurrent(r) ==
  IF r.ok
  THEN current_provider' = r.provider /\ current_model' = r.model
  ELSE UNCHANGED <<current_provider, current_model>>

\* Session::get_current_provider_and_model
get_current_provider_and_model(provider, model, provs) ==
  IF provider = NoProvider THEN "No provider selected"
  ELSE IF ~provs[provider].configured THEN "Provider not found"
  ELSE IF model = NoModel THEN "No model selected"
  ELSE "ok"

\* every configuration over the names: a provider is absent, has no model,
\* or has two
SelectConfigs ==
  [Names -> {NotConfigured, Configured(<<>>)}]
  \cup { [n \in Names |-> IF n \in S THEN Configured(ModelsOf(n)) ELSE c[n]] :
          S \in (SUBSET Names) \ {{}}, c \in [Names -> {NotConfigured, Configured(<<>>)}] }

InitSelect ==
  /\ InitClient
  /\ codec = "off"
  /\ msg = NoMessage
  /\ wire = EmptyObject
  /\ decoded = [ok |-> FALSE, m |-> NoMessage]
  /\ FrameOff
  /\ ToolOff
  /\ spc = "select"
  /\ providers \in SelectConfigs
  /\ hseed \in 1..Len(NameSeq)
  /\ history = <<>>
  /\ added = <<>>
  /\ current_provider = NoProvider
  /\ current_model = NoModel
  /\ stdin_eof = FALSE
  /\ sline = NoLine
  /\ sfail = "none"

\* one call of select_provider on a new session
SelectStep ==
  /\ spc = "select"
  /\ LET r == select_provider(providers, hseed) IN
       /\ SetCurrent(r)
       /\ sfail' = IF r.ok THEN "none" ELSE "select"
  /\ spc' = "selected"
  /\ UNCHANGED <<providers, hseed, history, added, stdin_eof, sline>>
  /\ UNCHANGED <<clientVars, codecVars, frameVars, toolVars>>

NextSelect == SelectStep

SpecSelect == InitSelect /\ [][NextSelect]_vars

\* ------------------------------------------------ Session: history and run
MaxAdds == 23
MaxSystemAdds == 1

\* add_message: `if self.history.len() > 20`
HistoryLimit == 20

\* a history message: its role and its content, here the number of the call
\* of add_message that added it
HistoryMessage(role, content) == [role |-> role, content |-> content]

\* the message dropped as soon as the history holds 20
add_message_AtLimit(h, role, content) ==
  LET pushed == Append(h, HistoryMessage(role, content)) IN
  IF Len(pushed) >= HistoryLimit THEN Tail(pushed) ELSE pushed

\* Session::add_message: push_back, then pop_front when over the limit
add_message(h, role, content) ==
  LET pushed == Append(h, HistoryMessage(role, content)) IN
  IF Len(pushed) > HistoryLimit THEN Tail(pushed) ELSE pushed

\* add_message on the session, and the record of the call
AddMessage(role) ==
  /\ history' = add_message(history, role, Len(added) + 1)
  /\ added' = Append(added, HistoryMessage(role, Len(added) + 1))

\* the lines typed at the prompt
InputLines ==
  { <<"e", "x", "i", "t">>,
    <<" ", "q", "u", "i", "t", " ">>,
    <<"s", "w", "i", "t", "c", "h">>,
    <<>>,
    <<" ", " ">>,
    <<"h", "i">> }

\* what `reader.next_line().await` returns: Ok(Some(line)), Ok(None) at the
\* end of input, or Err; at the end of input it keeps returning Ok(None)
NextLineResults(eof) ==
  IF eof THEN {[kind |-> "none", text |-> <<>>]}
  ELSE { [kind |-> "line", text |-> l] : l \in InputLines }
       \cup {[kind |-> "none", text |-> <<>>], [kind |-> "err", text |-> <<>>]}

\* the configurations of the sessions run here: kimi and openai absent,
\* without model or with models, groq and mistral absent or with models
SessionConfigs ==
  { c \in SelectConfigs :
      /\ \A n \in Names \ {"kimi", "openai", "groq", "mistral"} : c[n] = NotConfigured
      /\ \A n \in {"groq", "mistral"} : c[n] # Configured(<<>>) }

InitSession ==
  /\ InitClient
  /\ codec = "off"
  /\ msg = NoMessage
  /\ wire = EmptyObject
  /\ decoded = [ok |-> FALSE, m |-> NoMessage]
  /\ FrameOff
  /\ ToolOff
  /\ spc = "start"
  /\ providers \in SessionConfigs
  /\ hseed \in {1, Len(NameSeq)}
  /\ history = <<>>
  /\ added = <<>>
  /\ current_provider = NoProvider
  /\ current_model = NoModel
  /\ stdin_eof = FALSE
  /\ sline = NoLine
  /\ sfail = "none"

\* Session::new after the providers are built: the system prompt, then
\* select_provider()?
SessionNew ==
  /\ spc = "start"
  /\ AddMessage("System")
  /\ LET r == select_provider(providers, hseed) IN
       /\ SetCurrent(r)
       /\ spc' = IF r.ok THEN "created" ELSE "newfailed"
       /\ sfail' = IF r.ok THEN "none" ELSE "select"
  /\ UNCHANGED <<providers, hseed, stdin_eof, sline>>
  /\ UNCHANGED <<clientVars, codecVars, frameVars, toolVars>>

\* Session::add_system_message, called by the owner before run
AddSystemMessage ==
  /\ spc = "created"
  /\ Len(added) < 1 + MaxSystemAdds
  /\ AddMessage("System")
  /\ UNCHANGED <<spc, providers, hseed, current_provider, current_model, stdin_eof, sline,
                 sfail>>
  /\ UNCHANGED <<clientVars, codecVars, frameVars, toolVars>>

\* Session::run up to its loop
Run ==
  /\ spc = "created"
  /\ spc' = "loop"
  /\ UNCHANGED <<providers, hseed, history, added, current_provider, current_model,
                 stdin_eof, sline, sfail>>
  /\ UNCHANGED <<clientVars, codecVars, frameVars, toolVars>>

\* the top of the loop: print the prompt and flush()?
Prompt ==
  /\ spc = "loop"
  /\ \E flushed \in BOOLEAN :
        IF flushed
        THEN spc' = "reading" /\ sfail' = sfail
        ELSE spc' = "failed" /\ sfail' = "io"
  /\ UNCHANGED <<providers, hseed, history, added, current_provider, current_model,
                 stdin_eof, sline>>
  /\ UNCHANGED <<clientVars, codecVars, frameVars, toolVars>>

\* `if let Some(line) = reader.next_line().await?` and the match on
\* line.trim(), up to the await of generate_response for a request
ReadLine ==
  /\ spc = "reading"
  /\ \E r \in NextLineResults(stdin_eof) :
        /\ sline' = r
        /\ CASE r.kind = "err" ->
                  /\ spc' = "failed"
                  /\ sfail' = "io"
                  /\ UNCHANGED <<history, added, current_provider, current_model, stdin_eof>>
             [] r.kind = "none" ->
                  /\ spc' = "loop"
                  /\ stdin_eof' = TRUE
                  /\ UNCHANGED <<history, added, current_provider, current_model, sfail>>
             [] OTHER ->
                  LET text == trim(r.text) IN
                  CASE text \in {<<"e", "x", "i", "t">>, <<"q", "u", "i", "t">>} ->
                         /\ spc' = "exited"
                         /\ UNCHANGED <<history, added, current_provider, current_model,
                                        stdin_eof, sfail>>
                    [] text = <<"s", "w", "i", "t", "c", "h">> ->
                         LET s == select_provider(providers, hseed) IN
                         /\ SetCurrent(s)
                         /\ spc' = IF s.ok THEN "loop" ELSE "failed"
                         /\ sfail' = IF s.ok THEN sfail ELSE "select"
                         /\ UNCHANGED <<history, added, stdin_eof>>
                    [] text = <<>> ->
                         /\ spc' = "loop"
                         /\ UNCHANGED <<history, added, current_provider, current_model,
                                        stdin_eof, sfail>>
                    [] OTHER ->
                         /\ Len(added) + 2 <= MaxAdds
                         /\ AddMessage("User")
                         /\ LET g == get_current_provider_and_model(current_provider,
                                                                    current_model, providers)
                            IN /\ spc' = IF g = "ok" THEN "generating" ELSE "failed"
                               /\ sfail' = IF g = "ok" THEN sfail ELSE g
                         /\ UNCHANGED <<current_provider, current_model, stdin_eof>>
  /\ UNCHANGED <<providers, hseed>>
  /\ UNCHANGED <<clientVars, codecVars, frameVars, toolVars>>

\* process_request from `generate_response(..).await?` on
Generate ==
  /\ spc = "generating"
  /\ \E answered \in BOOLEAN :
        IF answered
        THEN /\ AddMessage("Assistant")
             /\ spc' = "loop"
             /\ sfail' = sfail
        ELSE /\ spc' = "failed"
             /\ sfail' = "generate"
             /\ UNCHANGED <<history, added>>
  /\ UNCHANGED <<providers, hseed, current_provider, current_model, stdin_eof, sline>>
  /\ UNCHANGED <<clientVars, codecVars, frameVars, toolVars>>

NextSession ==
  \/ SessionNew
  \/ AddSystemMessage
  \/ Run
  \/ Prompt
  \/ ReadLine
  \/ Generate

SpecSession == InitSession /\ [][NextSession]_vars

\* ------------------------------------------------ vocabulary of the claims
CallIds == 1..Len(calls)
ReadIds == 1..Len(consumed)

\* a well-framed JSON body with an id and no method: a response on the wire
IsResponseFrame(item) == item.t = "frame" /\ item.body.method = Absent
IsResponseFor(item, id) == IsResponseFrame(item) /\ item.body.id = JNum(id)
IsErrorResponse(body) == body.error # Absent /\ body.result = Absent

\* the result a response frame carries (null when it carries none)
Carried(body) == IF body.result = Absent THEN JNull ELSE body.result

\* a frame whose decoding fails
IsMalformed(item) == item.t \in {"badheader", "badbody"}

C2_IdsStrictlyIncreasing ==
  /\ Len(calls) >= 1 => calls[1].id = 1
  /\ \A i, j \in CallIds : i < j => calls[i].id < calls[j].id
  /\ \A i \in CallIds : calls[i].id <= id_counter

\* Three ids were allocated and the send of one before the last failed.
C2_Witness ==
  /\ Len(calls) >= 3
  /\ \E i \in CallIds : i < Len(calls) /\ calls[i].err = "io"

\* C3: reading a response whose id is not the id of the pending request
\* changes nothing but the read position: the call stays pending, nothing is
\* returned and no error is raised; and the response with the pending id
\* then ends the call, with that response's result.
C3_UnmatchedDropped ==
  [][ (pc = "waiting" /\ inbound # <<>> /\ consumed' = Append(consumed, Head(inbound)))
      => /\ (IsResponseFrame(Head(inbound))
              /\ ~IsResponseFor(Head(inbound), calls[Len(calls)].id))
             => /\ pc' = "waiting"
                /\ Len(calls') = Len(calls)
                /\ calls'[Len(calls)].status = "pending"
                /\ \A i \in CallIds : i < Len(calls) => calls'[i] = calls[i]
                /\ UNCHANGED <<written, capabilities, child, kills, id_counter>>
         /\ IsResponseFor(Head(inbound), calls[Len(calls)].id)
             => /\ calls'[Len(calls)].status # "pending"
                /\ calls'[Len(calls)].by = Head(inbound).body
                /\ calls'[Len(calls)].status = "ok"
                     => calls'[Len(calls)].value = Carried(Head(inbound).body) ]_vars

\* A call has returned its result after dropping a late duplicate of the
\* response to an earlier request.
C3_Witness ==
  \E i \in CallIds :
    /\ i >= 2
    /\ calls[i].status = "ok"
    /\ calls[i].ignored >= 1
    /\ \E j, k \in ReadIds :
          j < k /\ IsResponseFor(consumed[j], 1) /\ IsResponseFor(consumed[k], 1)

\* C4: a call ended by a response that carries an error object does not
\* return a success value.
C4_RpcErrorDelivered ==
  \A i \in CallIds :
    (calls[i].status # "pending" /\ IsErrorResponse(calls[i].by)) => calls[i].status = "err"

\* The connection state of the specification, read off the client: Closed
\* once the client is gone or the read side has reported end of stream or a
\* decode error, Ready once LspClient::new has returned the client.
TerminalErrors == {"io", "parse_length", "parse_message"}
ReadSideTerminated ==
  \E i \in CallIds : calls[i].status = "err" /\ calls[i].err \in TerminalErrors
ConnState ==
  IF pc \in {"dropped", "newfailed", "spawnfailed"} \/ ReadSideTerminated THEN "Closed"
  ELSE IF pc \in {"start", "spawned"} \/ (pc = "waiting" /\ Len(calls) = 1) THEN "Initializing"
  ELSE "Ready"

\* C5: a request attempted while the connection is not Ready fails at once
\* and neither writes to nor reads from the server.
C5_NoIoOutsideReady ==
  [][ (pc = "idle" /\ ConnState # "Ready" /\ id_counter' # id_counter)
      => /\ written' = written
         /\ inbound' = inbound
         /\ pc' = "idle"
         /\ calls'[Len(calls')].status = "err" ]_vars

\* C6: when the inbound stream has closed, the next iteration of the read
\* loop fails the pending request (unless its caller has given it up), and
\* the request does not stay pending.
C6_PendingFailsOnClose ==
  /\ [][ (pc = "waiting" /\ child # "running" /\ inbound = <<>>
           /\ calls'[Len(calls)].status # "abandoned")
          => (pc' # "waiting" /\ calls'[Len(calls)].status = "err") ]_vars
  /\ (pc = "waiting" /\ child # "running") ~> (pc # "waiting")

\* A document request failed on end of stream after the child had exited.
C6_Witness ==
  /\ Len(calls) >= 2
  /\ calls[Len(calls)].status = "err"
  /\ calls[Len(calls)].err = "parse_message"
  /\ child = "exited"
  /\ \A k \in ReadIds : ~IsMalformed(consumed[k])

\* C7: the first frame written is the initialize request, the second is the
\* initialized notification, written only after the successful initialize
\* response has been read and the capabilities captured from it; every
\* other request comes after both, and none of them is a second handshake.
C7_HandshakeOrder ==
  /\ Len(written) >= 1 => written[1] = RequestFrame(M_initialize, JObj(0), 1)
  /\ Len(written) >= 2 =>
        /\ written[2] = NotificationFrame(M_initialized, JNull)
        /\ calls[1].status = "ok"
        /\ capabilities = Some(calls[1].value)
        /\ \E k \in ReadIds : IsResponseFor(consumed[k], 1) /\ consumed[k].body = calls[1].by
  /\ \A k \in 1..Len(written) :
        k >= 3 => /\ written[k].method = JStr(M_documentSymbol)
                  /\ written[k].id # Absent
  /\ pc = "idle" => Len(written) >= 2
  /\ capabilities # None => (Len(calls) >= 1 /\ calls[1].status = "ok")

\* The handshake is done and a document request has been written.
C7_Witness ==
  /\ Len(written) >= 3
  /\ written[3] = RequestFrame(M_documentSymbol, JObj(0), 2)

\* C8: when the initialize request ends in an error (an error response, or
\* a transport failure before the response), LspClient::new fails: no
\* client is returned, no further request is made, and the child has been
\* sent the kill.
C8_HandshakeFailed ==
  /\ (Len(calls) >= 1 /\ calls[1].status # "pending" /\ IsErrorResponse(calls[1].by))
        => calls[1].status = "err"
  /\ (Len(calls) >= 1 /\ calls[1].status = "err")
        => /\ pc = "newfailed"
           /\ ConnState = "Closed"
           /\ kills = 1
           /\ child # "running"
           /\ Len(calls) = 1
           /\ Len(written) <= 1

\* The server answered initialize with an error object and new has failed.
C8_Witness ==
  /\ Len(calls) = 1
  /\ IsErrorResponse(calls[1].by)
  /\ pc = "newfailed"
  /\ child = "killed"

\* C9: once the decoding of an inbound frame has failed, the connection is
\* Closed for good: no request is written and no call succeeds afterwards.
DecodeFailed == \E k \in ReadIds : IsMalformed(consumed[k])
C9_DecodeErrorTerminates ==
  [][ DecodeFailed
      => /\ written' = written
         /\ \A i \in 1..Len(calls') :
               calls'[i].status = "ok" => (i <= Len(calls) /\ calls[i].status = "ok") ]_vars

\* C10: decoding the encoding of a valid message gives the message back.
C10_RoundTrip ==
  codec = "decoded" => (decoded.ok /\ decoded.m = msg)

\* C14: a well-formed body that carries none of the fields of a request, a
\* response or a notification is not decoded as a message.
HasNoMessageFields(o) ==
  /\ o.method = Absent /\ o.params = Absent /\ o.result = Absent
  /\ o.error = Absent /\ o.id = Absent
C14_UnknownShapeRejected ==
  (codec = "decoded" /\ IsOptString(wire.jsonrpc) /\ HasNoMessageFields(wire)) => ~decoded.ok

\* C16: the kill is issued exactly once per client that was constructed and
\* torn down, also when the client is dropped with a request in flight, and
\* never before; nothing touches the child after it.
ClientGone == pc \in {"dropped", "newfailed"}
C16_KilledOnce ==
  /\ kills <= 1
  /\ ClientGone <=> kills = 1
  /\ child = "killed" => kills = 1
  /\ ClientGone => child # "running"

\* The client was dropped while a document request was pending.
C16_Witness ==
  /\ pc = "dropped"
  /\ Len(calls) >= 2
  /\ calls[Len(calls)].status = "abandoned"
  /\ child = "killed"
  /\ kills = 1

\* C17: once the connection is torn down, in particular once the read side
\* has ended on end of stream or on a decode error, the child is not
\* running any more and no request is pending.
C17_TeardownKillsChild ==
  (ClientGone \/ ReadSideTerminated)
    => /\ child # "running"
       /\ \A i \in CallIds : calls[i].status # "pending"

\* C19: while one request is pending, a second request can be issued.
C19_SecondCallerNotBlocked ==
  (pc = "waiting" /\ Len(calls) >= 2 /\ id_counter < MaxId /\ child = "running")
    => ENABLED GetDocumentSymbols

\* C20: a notification read from the server is not discarded.
IsNotificationFrame(item) ==
  item.t = "frame" /\ item.body.method # Absent /\ item.body.id = Absent
C20_NotificationDelivered ==
  [][ (pc = "waiting" /\ inbound # <<>> /\ consumed' = Append(consumed, Head(inbound))
       /\ IsNotificationFrame(Head(inbound)))
      => calls'[Len(calls)].ignored = calls[Len(calls)].ignored ]_vars

\* ------------------------------------------------ the wire format, restated
\* the number of bytes of a string in UTF-8
ByteCount(str) == Len(str) + Cardinality({i \in 1..Len(str) : str[i] = "U+E9"})

IsDecimal(d) ==
  /\ Len(d) >= 1
  /\ \A i \in 1..Len(d) : \E k \in 1..10 : DigitChars[k] = d[i]
  /\ Len(d) = 1 \/ d[1] # "0"

RECURSIVE DecimalValue(_)
DecimalValue(d) ==
  IF d = <<>> THEN 0
  ELSE 10 * DecimalValue(SubSeq(d, 1, Len(d) - 1))
         + (CHOOSE k \in 0..9 : DigitChars[k + 1] = d[Len(d)])

\* `bytes` is "Content-Length: ", the decimal byte length of `content`,
\* CR LF CR LF and the bytes of `content`, and nothing else.
IsFrameOf(bytes, content) ==
  LET n == ByteCount(content)
      d == Len(bytes) - 16 - 4 - n
  IN /\ d >= 1
     /\ SubSeq(bytes, 1, 16) = ContentLengthPrefix
     /\ IsDecimal(SubSeq(bytes, 17, 16 + d))
     /\ DecimalValue(SubSeq(bytes, 17, 16 + d)) = n
     /\ SubSeq(bytes, 17 + d, 20 + d) = CrLfCrLf
     /\ SubSeq(bytes, 21 + d, Len(bytes)) = as_bytes(content)

\* the index of the first CR of a byte string, 0 if there is none
FirstCr(b) ==
  IF \E i \in 1..Len(b) : b[i] = "\r"
  THEN CHOOSE i \in 1..Len(b) : b[i] = "\r" /\ \A j \in 1..(i - 1) : b[j] # "\r"
  ELSE 0

RECURSIVE SplitFrames(_)
\* Reads a byte stream as whole frames only: each a header in the exact
\* wire format followed by exactly the declared number of bytes.
SplitFrames(b) ==
  IF b = <<>> THEN [ok |-> TRUE, bodies |-> <<>>]
  ELSE LET c == FirstCr(b)
           d == SubSeq(b, 17, c - 1)
       IN IF /\ c >= 18
             /\ SubSeq(b, 1, 16) = ContentLengthPrefix
             /\ IsDecimal(d)
             /\ SubSeq(b, c, c + 3) = CrLfCrLf
             /\ Len(b) >= c + 3 + DecimalValue(d)
          THEN LET n == DecimalValue(d)
                   more == SplitFrames(SubSeq(b, c + 4 + n, Len(b)))
               IN [ok |-> more.ok,
                   bodies |-> <<SubSeq(b, c + 4, c + 3 + n)>> \o more.bodies]
          ELSE [ok |-> FALSE, bodies |-> <<>>]

\* C11: every frame written is "Content-Length: ", the decimal length of
\* the body in bytes, CR LF CR LF and the body, appended to what was written
\* before.
C11_FrameFormat ==
  [][ fsent' = fsent + 1
      => /\ SubSeq(fout', 1, Len(fout)) = fout
         /\ IsFrameOf(SubSeq(fout', Len(fout) + 1, Len(fout')), fcontents[fsent + 1]) ]_vars

\* A frame was written whose body has more bytes than characters.
C11_Witness ==
  /\ fsent >= 1
  /\ ByteCount(fcontents[1]) > Len(fcontents[1])
  /\ IsFrameOf(fout, fcontents[1])

C12_TruncatedBodyFails ==
  (Len(fres) >= 1 /\ fin.value = "exact" /\ fin.cut > 0 /\ ~fin.follow /\ fclosed)
    => /\ fres[1].st = "err"
       /\ fres[1].content = <<>>
       /\ Len(fres) = 1

\* The header said content-length: 13, ten bytes followed and the stream
\* ended; the call has returned an error.
C12_Witness ==
  /\ Len(fres) = 1
  /\ fin.name = <<"c", "o", "n", "t", "e", "n", "t", "-", "l", "e", "n", "g", "t", "h">>
  /\ fin.value = "exact"
  /\ content_length(fin.body) = 13
  /\ fin.cut = 3
  /\ fclosed
  /\ fres[1].st = "err"

\* C13: a header block without a length field, or with a length field that
\* is not a decimal number, makes receive_message fail, and no message is
\* delivered.
C13_BadLengthFails ==
  (Len(fres) >= 1 /\ fin.value \in {"absent", "alpha", "suffix"})
    => /\ fres[1].st = "err"
       /\ fres[1].content = <<>>

\* the stream of the same frame with the canonical field name and no other
\* header line
Canonical(f) == [f EXCEPT !.name = <<"C", "o", "n", "t", "e", "n", "t", "-", "L", "e", "n", "g", "t", "h">>, !.extras = "none"]

\* C15: with a numeric length and the whole body present, the message
\* decoded is the body, and the same as from the frame with the canonical
\* field name and without the other header lines, whatever the letter case
\* of the field name and wherever the other header line stands.
C15_CaseAndExtraHeaders ==
  (Len(fres) >= 1 /\ fin.value = "exact" /\ fin.cut = 0)
    => /\ fres[1].st = "ok"
       /\ fres[1].content = fin.body
       /\ fres[1] = receive_message_bytes(StreamOf(Canonical(fin)), fclosed)

\* A frame with an upper-case field name after another header line has been
\* decoded.
C15_Witness ==
  /\ Len(fres) >= 1
  /\ fin.name = <<"C", "O", "N", "T", "E", "N", "T", "-", "L", "E", "N", "G", "T", "H">>
  /\ fin.extras = "before"
  /\ fin.value = "exact"
  /\ fres[1].st = "ok"
  /\ fres[1].content = fin.body

\* ------------------------------------------------ notifications sent
\* C21: the step in which notify writes its frame appends exactly that one
\* frame, the frame has no id, the id counter is unchanged, no call is
\* registered or left pending, and the client is not left waiting on the
\* inbound stream: the one frame read in the step is the response that ended
\* the initialize request before notify began.
C21_NotifyFireAndForget ==
  [][ (Len(written') > Len(written) /\ written'[Len(written')].method = JStr(M_initialized))
      => /\ written' = Append(written, NotificationFrame(M_initialized, JNull))
         /\ written'[Len(written')].id = Absent
         /\ id_counter' = id_counter
         /\ Len(calls') = Len(calls)
         /\ \A i \in CallIds : calls'[i].status # "pending"
         /\ pc' = "idle"
         /\ Len(consumed') = Len(consumed) + 1
         /\ calls'[Len(calls)].by = consumed'[Len(consumed')].body ]_vars

\* The "initialized" notification has been written after the one request.
C21_Witness ==
  /\ Len(written) = 2
  /\ written[2].method = JStr(M_initialized)
  /\ written[2].id = Absent
  /\ id_counter = 1
  /\ pc = "idle"

\* ------------------------------------------------ how a pending call ends
\* C22: a pending send_request stops being pending only in a step that reads
\* the response with its id, reads a frame that fails to decode, finds the
\* stream closed, or in which the caller drops the client; reading any other
\* message never ends it and nothing else does.
C22_NoTimeout ==
  [][ (pc = "waiting" /\ (pc' # "waiting" \/ calls'[Len(calls)].status # "pending"))
      => \/ /\ inbound # <<>>
            /\ consumed' = Append(consumed, Head(inbound))
            /\ \/ IsResponseFor(Head(inbound), calls[Len(calls)].id)
               \/ IsMalformed(Head(inbound))
         \/ /\ inbound = <<>>
            /\ child # "running"
            /\ calls'[Len(calls)].status = "err"
         \/ /\ pc' = "dropped"
            /\ calls'[Len(calls)].status = "abandoned" ]_vars

\* The second request is still pending after two other messages were read
\* and dropped, with the stream open and nothing more to read.
C22_Witness ==
  /\ pc = "waiting"
  /\ Len(calls) = 2
  /\ calls[2].status = "pending"
  /\ calls[2].ignored = 2
  /\ inbound = <<>>
  /\ child = "running"

\* ------------------------------------------------ giving up a call
\* C23: after the caller has given up a request while its response was
\* being read, the next read on the connection does not fail, and what it
\* delivers is the late response to the abandoned request or the response
\* to the next request.
C23_AbandonKeepsUsable ==
  (Len(fres) >= 2 /\ fres[1].st = "abandoned")
    => /\ fres[2].st \in {"ok", "blocked"}
       /\ fres[2].st = "ok" => fres[2].content \in {fin.body, FollowText}

\* ------------------------------------------------ ids on the wire
\* the positions of `written` that hold a request
RequestPositions == { k \in 1..Len(written) : written[k].id # Absent }

C26_ExactConsumption ==
  (Len(fres) >= 1 /\ fin.value = "exact" /\ fin.cut = 0)
    => /\ fres[1].st = "ok"
       /\ fres[1].content = fin.body
       /\ fres[1].rest = IF fin.follow THEN frame_bytes(FollowText) ELSE <<>>
       /\ (Len(fres) >= 2 /\ fin.follow)
            => /\ fres[2].st = "ok"
               /\ fres[2].content = FollowText
               /\ fres[2].rest = <<>>

\* Two frames back to back, the first body without any line feed, have been
\* decoded one after the other from an open stream.
C26_Witness ==
  /\ Len(fres) = 2
  /\ fin.value = "exact"
  /\ fin.follow
  /\ ~fclosed
  /\ \A i \in 1..Len(fin.body) : fin.body[i] # "\n"
  /\ fres[1].st = "ok"
  /\ fres[2].st = "ok"
  /\ fres[2].content = FollowText

\* ------------------------------------------------ the confirmation gate
\* C24: with yolo mode off, a call whose tool is not on the allow-list has
\* shown the prompt, and its handler ran only if the user accepted; a call
\* the user declined ran no handler and returned success = false with the
\* output "Tool execution denied by user"; a call whose tool is on the
\* allow-list showed no prompt; and the prompt is only ever open for a tool
\* off the allow-list with yolo mode off.
C24_ConfirmationGate ==
  /\ \A i \in 1..Len(tlog) :
        LET c == tlog[i] IN
        /\ (~yolo_mode /\ c.name \notin safe_tools)
             => /\ c.prompted
                /\ c.ran # "none" => c.answer = "yes"
        /\ c.answer = "no"
             => /\ c.ran = "none"
                /\ c.result.kind = "ok"
                /\ c.result.success = FALSE
                /\ c.result.output = "Tool execution denied by user"
        /\ c.name \in safe_tools => ~c.prompted
  /\ tstage = "confirm" => (~yolo_mode /\ tname \notin safe_tools)

\* With yolo mode off, a shell call was declined and returned the denial,
\* and a write_file call was accepted and ran.
C24_Witness ==
  /\ ~yolo_mode
  /\ Len(tlog) = 2
  /\ tlog[1].name = "shell"
  /\ tlog[1].answer = "no"
  /\ tlog[1].result = Denied
  /\ tlog[2].name = "write_file"
  /\ tlog[2].answer = "yes"
  /\ tlog[2].ran = "write_file"

\* ------------------------------------------------ the provider chosen
\* the fixed order the claim names
FixedOrder == <<"kimi", "deepseek", "gemini", "anthropic", "openai", "ollama">>

\* the place of a name in the fixed order, 0 when it is not in it
Rank(name) ==
  IF \E i \in 1..Len(FixedOrder) : FixedOrder[i] = name
  THEN CHOOSE i \in 1..Len(FixedOrder) : FixedOrder[i] = name
  ELSE 0

\* the configured providers that have a model
WithModel == { n \in Names : providers[n].configured /\ Len(providers[n].models) >= 1 }

\* C29: after select_provider, if some configured provider has a model the
\* call succeeded, the provider chosen has a model and current_model is its
\* first one; if any name of the fixed order has a model, the chosen one is
\* the earliest such name in that order (so a name outside it is chosen only
\* when none of them has a model); and if no configured provider has a model
\* the call failed and current_provider and current_model are as before.
C29_SelectProvider ==
  spc = "selected"
    => IF WithModel = {}
       THEN /\ sfail = "select"
            /\ current_provider = NoProvider
            /\ current_model = NoModel
       ELSE /\ sfail = "none"
            /\ current_provider \in WithModel
            /\ current_model = providers[current_provider].models[1]
            /\ \A n \in WithModel :
                  Rank(n) > 0 => (Rank(current_provider) > 0 /\ Rank(current_provider) <= Rank(n))

\* A provider outside the fixed order was chosen although a name of the
\* fixed order is configured, without models.
C29_Witness ==
  /\ spc = "selected"
  /\ current_provider = "mistral"
  /\ providers["groq"].configured
  /\ providers["groq"].models # <<>>
  /\ providers["kimi"].configured

\* ------------------------------------------------ the session history
\* the smaller of two numbers
Min(a, b) == IF a < b THEN a ELSE b

\* C27: after n calls of add_message the history holds min(n, 20) messages,
\* and they are the last min(n, 20) messages added, in the order they were
\* added; a call on a full history drops exactly the oldest message.
C27_HistoryWindow ==
  /\ [](/\ Len(history) = Min(Len(added), 20)
        /\ Len(history) <= 20
        /\ \A i \in 1..Len(history) :
              history[i] = added[Len(added) - Len(history) + i])
  /\ [][ (Len(added') = Len(added) + 1 /\ Len(history) = 20)
          => /\ Len(history') = 20
             /\ \A i \in 1..19 : history'[i] = history[i + 1]
             /\ history'[20] = added'[Len(added')] ]_vars

\* More than twenty messages were added and the system prompt is gone.
C27_Witness ==
  /\ Len(added) >= 22
  /\ Len(history) = 20
  /\ added[1].role = "System"
  /\ history[1].content = Len(added) - 19
  /\ history[20].role = "Assistant"

\* ------------------------------------------------ the end of run
\* C28: the step of the loop that reads exit or quit leaves the loop and run
\* returns, and so does the step in which next_line reports the end of
\* standard input.
C28_RunTerminates ==
  [][ spc = "reading"
      => /\ (sline'.kind = "line"
              /\ trim(sline'.text) \in {<<"e", "x", "i", "t">>, <<"q", "u", "i", "t">>})
             => spc' = "exited"
         /\ sline'.kind = "none" => spc' = "exited" ]_vars

\* ------------------------------------------------ the current provider
\* C30: once Session::new has succeeded, current_provider and current_model
\* are set, current_provider is configured, current_model is that
\* provider's first model, and neither select_provider nor
\* get_current_provider_and_model has returned an error.
C30_CurrentProviderValid ==
  spc \in {"created", "loop", "reading", "generating", "exited", "failed"}
    => /\ current_provider # ""
       /\ current_model.n # 0
       /\ current_provider \in Names
       /\ providers[current_provider].configured
       /\ Len(providers[current_provider].models) >= 1
       /\ current_model = providers[current_provider].models[1]
       /\ get_current_provider_and_model(current_provider, current_model, providers) = "ok"
       /\ sfail \in {"none", "io", "generate"}

\* A session whose only providers with models are outside the fixed order,
\* with kimi configured without models, has answered a request.
C30_Witness ==
  /\ spc = "loop"
  /\ sline.kind = "line"
  /\ Len(added) >= 3
  /\ added[Len(added)].role = "Assistant"
  /\ current_provider \in {"groq", "mistral"}
  /\ providers["kimi"].configured

====
